---- MODULE Spec2Model ----
(***************************************************************************)
(* Verification model of the structured tool-calling runtime:              *)
(*   - worker/agents/inferutils/zodToJsonSchema.ts  (schema compiler)      *)
(*   - worker/agents/tools/customTools.ts           (tool execution)       *)
(***************************************************************************)
EXTENDS Integers, Sequences, FiniteSets, TLC

VARIABLES
    schema,        \* the Zod schema handed to the compiler (its _def tree)
    cpc,           \* compiler call position: "ready" | "compiled" | "formatted"
    jsonSchema,    \* value returned by zodToJsonSchema
    console,       \* console.warn messages emitted by the compiler
    outputFormat,  \* value returned by createAnthropicOutputFormat
    tools,         \* tool definitions returned by buildDebugTools
    toolRenderer,  \* whether buildDebugTools was given a render callback
    tpc,           \* position inside executeToolWithDefinition
    toolDef,       \* toolDef argument of the running call
    args,          \* args argument of the running call
    trace,         \* what the running call has done so far, in order
    rendered,      \* events the render callback has received in this call
    implOutcome,   \* how the promise of toolDef.implementation settled
    outcome,       \* how the promise of executeToolWithDefinition settled
    invocations,   \* number of executeToolWithDefinition calls so far
    graph,         \* schema table whose lazy getters may refer back to any entry
    stack,         \* frames of the compiler's recursion over the schema table
    lpc,           \* position of the compile call over the schema table
    bpc,           \* position inside buildTools
    mcpInit,       \* state of the promise returned by mcpManager.initialize()
    servers,       \* state of each configured remote server's discovery
    mcpToolNames,  \* names mcpManager.getAvailableToolNames() returns
    buildLog,      \* logger calls made by buildTools, in order
    catalog,       \* settlement of the promise returned by buildTools
    sstate,        \* state of the execution loop
    phase,         \* what the running loop is waiting for
    iterationCount, \* rounds the loop has started
    messages,      \* turns of the conversation, in order
    calls,         \* tool calls requested in the current round, in request order
    results,       \* results of the current round's calls that have completed
    cancelled,     \* whether the cancellation signal has fired
    apps,          \* rows of the apps table: id -> custom_subdomain
    migrated,      \* whether migration 0006 has been applied
    statement,     \* the last statement sent to the database
    dbResult,      \* how the database answered the last statement
    dpc,           \* position inside DomainService.checkAvailability
    domain,        \* domain argument of the running call
    queries,       \* names the DNS-over-HTTPS endpoint has been asked for
    response,      \* what fetch and response.json() have produced so far
    availability,  \* settlement of the promise returned by checkAvailability
    serviceLog     \* logger calls made by the domain service, in order

compilerVars == <<schema, cpc, jsonSchema, console, outputFormat>>

toolVars == <<tools, toolRenderer, tpc, toolDef, args, trace, rendered, implOutcome,
              outcome, invocations>>

lazyVars == <<graph, stack, lpc>>

buildVars == <<bpc, mcpInit, servers, mcpToolNames, buildLog, catalog>>

sessionVars == <<sstate, phase, iterationCount, messages, calls, results, cancelled>>

dbVars == <<apps, migrated, statement, dbResult>>

domainVars == <<dpc, domain, queries, response, availability, serviceLog>>

vars == <<schema, cpc, jsonSchema, console, outputFormat, tools, toolRenderer, tpc,
          toolDef, args, trace, rendered, implOutcome, outcome, invocations,
          graph, stack, lpc, bpc, mcpInit, servers, mcpToolNames, buildLog, catalog,
          sstate, phase, iterationCount, messages, calls, results, cancelled,
          apps, migrated, statement, dbResult,
          dpc, domain, queries, response, availability, serviceLog>>

(***************************************************************************)
(* Bounds of the explored input space                                      *)
(***************************************************************************)
MaxDepth == 2        \* nesting depth of the schema trees below the root
MaxMinLength == 2    \* largest declared array minimum length
MaxInvocations == 2  \* tool invocations followed in one session

(***************************************************************************)
(* JavaScript values.  A value carries its typeof tag; an absent           *)
(* (undefined / null) optional is the empty sequence, a present one a      *)
(* one-element sequence.                                                   *)
(***************************************************************************)
Str(s) == [t |-> "string", s |-> s, n |-> 0]
Num(n) == [t |-> "number", s |-> "", n |-> n]
typeof(val) == val.t

Absent == <<>>
Some(v) == <<v>>

\* The empty JSON schema {} : a record with no fields.
EmptySchema == <<>>

\* JavaScript truthiness of an optional string (undefined and "" are falsy)
Truthy(optStr) == optStr # Absent /\ optStr[1] # ""

(***************************************************************************)
(* Zod schema nodes: the fields of schema._def that the compiler reads.    *)
(***************************************************************************)
ZNode(typeName) == [typeName |-> typeName, description |-> Absent]

ZString(checks) == [typeName |-> "ZodString", description |-> Absent, checks |-> checks]
ZLiteral(value) == [typeName |-> "ZodLiteral", description |-> Absent, value |-> value]
ZEnum(values) == [typeName |-> "ZodEnum", description |-> Absent, values |-> values]
ZNativeEnum(enumObj) == [typeName |-> "ZodNativeEnum", description |-> Absent, values |-> enumObj]
ZArray(type, minLength) ==
    [typeName |-> "ZodArray", description |-> Absent, type |-> type,
     minLength |-> minLength]
ZObject(shape) == [typeName |-> "ZodObject", description |-> Absent, shape |-> shape]
ZUnion(options) == [typeName |-> "ZodUnion", description |-> Absent, options |-> options]
ZDiscriminatedUnion(options) ==
    [typeName |-> "ZodDiscriminatedUnion", description |-> Absent, options |-> options]
ZIntersection(left, right) ==
    [typeName |-> "ZodIntersection", description |-> Absent, left |-> left, right |-> right]
ZTuple(items) == [typeName |-> "ZodTuple", description |-> Absent, items |-> items]
ZRecord(valueType) == [typeName |-> "ZodRecord", description |-> Absent, valueType |-> valueType]
ZInner(typeName, innerType) ==
    [typeName |-> typeName, description |-> Absent, innerType |-> innerType]
ZDefault(innerType, defaultValue) ==
    [typeName |-> "ZodDefault", description |-> Absent, innerType |-> innerType,
     defaultValue |-> defaultValue]
ZEffects(inner) == [typeName |-> "ZodEffects", description |-> Absent, schema |-> inner]
ZLazy(target) == [typeName |-> "ZodLazy", description |-> Absent, getter |-> target]
ZBranded(type) == [typeName |-> "ZodBranded", description |-> Absent, type |-> type]
ZPipeline(inp, out) == [typeName |-> "ZodPipeline", description |-> Absent, inp |-> inp, out |-> out]

\* the schema a wrapper node wraps: _def.schema, _def.getter(), _def.type,
\* _def.out or _def.innerType
WrappedType(node) ==
    CASE node.typeName = "ZodEffects" -> node.schema
      [] node.typeName = "ZodLazy" -> node.getter
      [] node.typeName = "ZodBranded" -> node.type
      [] node.typeName = "ZodPipeline" -> node.out
      [] OTHER -> node.innerType

Describe(node, description) == [node EXCEPT !.description = description]

Field(key, value) == [key |-> key, value |-> value]
Check(kind, version) == [kind |-> kind, version |-> version]

(***************************************************************************)
(* The compiler.  Every process* function returns the compiled schema (js) *)
(* together with the console.warn messages emitted while computing it.     *)
(***************************************************************************)
Ret(js, log) == [js |-> js, log |-> log]

\* mutation: a declared minimum length is emitted as minLength
StringCheck_minLength(check, result) ==
    CASE check.kind = "email"    -> [format |-> "email"] @@ result
      [] check.kind = "url"      -> [format |-> "uri"] @@ result
      [] check.kind = "uuid"     -> [format |-> "uuid"] @@ result
      [] check.kind = "datetime" -> [format |-> "date-time"] @@ result
      [] check.kind = "date"     -> [format |-> "date"] @@ result
      [] check.kind = "time"     -> [format |-> "time"] @@ result
      [] check.kind = "ip"       ->
            [format |-> IF check.version = "v6" THEN "ipv6" ELSE "ipv4"] @@ result
      [] check.kind = "min"      -> [minLength |-> 1] @@ result
      [] OTHER                   -> result

\* one iteration of the switch over check.kind
StringCheck(check, result) ==
    CASE check.kind = "email"    -> [format |-> "email"] @@ result
      [] check.kind = "url"      -> [format |-> "uri"] @@ result
      [] check.kind = "uuid"     -> [format |-> "uuid"] @@ result
      [] check.kind = "datetime" -> [format |-> "date-time"] @@ result
      [] check.kind = "date"     -> [format |-> "date"] @@ result
      [] check.kind = "time"     -> [format |-> "time"] @@ result
      [] check.kind = "ip"       ->
            [format |-> IF check.version = "v6" THEN "ipv6" ELSE "ipv4"] @@ result
      [] OTHER                   -> result

RECURSIVE StringChecks(_, _)
StringChecks(checks, result) ==
    IF checks = <<>> THEN result
    ELSE StringChecks(Tail(checks), StringCheck(Head(checks), result))

processString(s) == Ret(StringChecks(s.checks, [type |-> "string"]), <<>>)

processLiteral(s) == Ret([const |-> s.value], <<>>)

processEnum(s) == Ret([enum |-> s.values], <<>>)

\* Object.values of an object whose entries are listed in property order
ObjectValues(obj) == [i \in 1..Len(obj) |-> obj[i].value]

processNativeEnum(s) ==
    LET enumObj == s.values
        values == SelectSeq(ObjectValues(enumObj),
                            LAMBDA val : typeof(val) = "string" \/ typeof(val) = "number")
    IN  Ret([enum |-> values], <<>>)

\* mutation: a record is left open
processRecord_open(s) == Ret([type |-> "object", additionalProperties |-> TRUE], <<>>)

processRecord(s) == Ret([type |-> "object", additionalProperties |-> FALSE], <<>>)

\* mutation: the ZodDefault case is missing
isOptional_noDefault(s) ==
    LET typeName == s.typeName
    IN  IF typeName = "ZodOptional" THEN TRUE ELSE FALSE

\* mutation: a nullable field is taken for an optional one
isOptional_nullable(s) ==
    LET typeName == s.typeName
    IN  IF typeName = "ZodOptional" THEN TRUE
        ELSE IF typeName = "ZodDefault" THEN TRUE
        ELSE IF typeName = "ZodNullable" THEN TRUE
        ELSE FALSE

\* mutation: the check looks through one wrapper around the field
isOptional_unwrapping(s) ==
    \/ s.typeName \in {"ZodOptional", "ZodDefault"}
    \/ /\ s.typeName \in {"ZodNullable", "ZodEffects", "ZodBranded", "ZodCatch",
                          "ZodPipeline", "ZodReadonly", "ZodLazy"}
       /\ WrappedType(s).typeName \in {"ZodOptional", "ZodDefault"}

isOptional(s) ==
    LET typeName == s.typeName
    IN  IF typeName = "ZodOptional" THEN TRUE
        ELSE IF typeName = "ZodDefault" THEN TRUE
        ELSE IF typeName = "ZodNullable" THEN FALSE
        ELSE FALSE

\* mutation: the default arm returns {} without the warning
UnhandledType_silent(typeName) == Ret(EmptySchema, <<>>)

\* what processZodType does when no case of the switch matches
UnhandledType(typeName) == Ret(EmptySchema, <<"Unhandled Zod type: " \o typeName>>)

RECURSIVE processZodType(_)
RECURSIVE MapProcess(_)
RECURSIVE ObjectLoop(_)

\* list.map(item => processZodType(item, definitions))
MapProcess(list) ==
    IF list = <<>> THEN Ret(<<>>, <<>>)
    ELSE LET first == processZodType(Head(list))
             rest == MapProcess(Tail(list))
         IN  Ret(<<first.js>> \o rest.js, first.log \o rest.log)

\* mutation: every declared minimum length is emitted
processArray_anyMin(s) ==
    LET items == processZodType(s.type)
        result == [type |-> "array", items |-> items.js]
        minLength == IF s.minLength = Absent THEN Absent ELSE Some(s.minLength[1].value)
    IN  IF minLength # Absent
        THEN Ret([minItems |-> minLength[1]] @@ result, items.log)
        ELSE Ret(result, items.log)

processArray(s) ==
    LET items == processZodType(s.type)
        result == [type |-> "array", items |-> items.js]
        minLength == IF s.minLength = Absent THEN Absent ELSE Some(s.minLength[1].value)
    IN  IF minLength # Absent /\ (minLength[1] = 0 \/ minLength[1] = 1)
        THEN Ret([minItems |-> minLength[1]] @@ result, items.log)
        ELSE Ret(result, items.log)

\* the for loop of processObject over Object.entries(shape)
ObjectLoop(entries) ==
    IF entries = <<>> THEN [properties |-> <<>>, required |-> <<>>, log |-> <<>>]
    ELSE LET key == Head(entries).key
             zodValue == Head(entries).value
             compiled == processZodType(zodValue)
             property == IF Truthy(zodValue.description)
                         THEN [description |-> zodValue.description[1]] @@ compiled.js
                         ELSE compiled.js
             rest == ObjectLoop(Tail(entries))
         IN  [properties |-> <<[key |-> key, value |-> property]>> \o rest.properties,
              required |-> (IF ~isOptional(zodValue) THEN <<key>> ELSE <<>>) \o rest.required,
              log |-> compiled.log \o rest.log]

\* required: undefined is modelled as the key being absent (as in the
\* serialised schema); properties is the entry list in insertion order
processObject(s) ==
    LET loop == ObjectLoop(s.shape)
        base == [type |-> "object", properties |-> loop.properties,
                 additionalProperties |-> FALSE]
    IN  IF Len(loop.required) > 0
        THEN Ret([required |-> loop.required] @@ base, loop.log)
        ELSE Ret(base, loop.log)

processUnion(s) ==
    LET options == MapProcess(s.options) IN Ret([anyOf |-> options.js], options.log)

processDiscriminatedUnion(s) ==
    LET options == MapProcess(s.options) IN Ret([anyOf |-> options.js], options.log)

processIntersection(s) ==
    LET left == processZodType(s.left)
        right == processZodType(s.right)
    IN  Ret([allOf |-> <<left.js, right.js>>], left.log \o right.log)

\* mutation: the elements are always put under anyOf
processTuple_anyOf(s) ==
    LET items == MapProcess(s.items)
    IN  Ret([type |-> "array", items |-> [anyOf |-> items.js]], items.log)

processTuple(s) ==
    LET items == MapProcess(s.items)
    IN  Ret([type |-> "array",
             items |-> IF Len(items.js) = 1 THEN items.js[1] ELSE [anyOf |-> items.js]],
            items.log)

processOptional(s) == processZodType(s.innerType)

\* mutation: nullability is written as a nullable flag on the inner shape
processNullable_flag(s) ==
    LET innerSchema == processZodType(s.innerType)
    IN  Ret([nullable |-> TRUE] @@ innerSchema.js, innerSchema.log)

processNullable(s) ==
    LET innerSchema == processZodType(s.innerType)
    IN  Ret([anyOf |-> <<innerSchema.js, [type |-> "null"]>>], innerSchema.log)

processDefault(s) ==
    LET innerSchema == processZodType(s.innerType)
        defaultValue == s.defaultValue
    IN  Ret([default |-> defaultValue] @@ innerSchema.js, innerSchema.log)

processZodType(s) ==
    LET typeName == s.typeName
    IN  CASE typeName = "ZodString"    -> processString(s)
          [] typeName = "ZodNumber"    -> Ret([type |-> "number"], <<>>)
          [] typeName = "ZodBigInt"    -> Ret([type |-> "integer"], <<>>)
          [] typeName = "ZodBoolean"   -> Ret([type |-> "boolean"], <<>>)
          [] typeName = "ZodNull"      -> Ret([type |-> "null"], <<>>)
          [] typeName = "ZodUndefined" -> Ret([type |-> "null"], <<>>)
          [] typeName = "ZodLiteral"   -> processLiteral(s)
          [] typeName = "ZodEnum"      -> processEnum(s)
          [] typeName = "ZodNativeEnum" -> processNativeEnum(s)
          [] typeName = "ZodArray"     -> processArray(s)
          [] typeName = "ZodObject"    -> processObject(s)
          [] typeName = "ZodUnion"     -> processUnion(s)
          [] typeName = "ZodDiscriminatedUnion" -> processDiscriminatedUnion(s)
          [] typeName = "ZodIntersection" -> processIntersection(s)
          [] typeName = "ZodTuple"     -> processTuple(s)
          [] typeName = "ZodRecord"    -> processRecord(s)
          [] typeName = "ZodOptional"  -> processOptional(s)
          [] typeName = "ZodNullable"  -> processNullable(s)
          [] typeName = "ZodDefault"   -> processDefault(s)
          [] typeName = "ZodEffects"   -> processZodType(s.schema)
          [] typeName = "ZodLazy"      -> processZodType(s.getter)
          [] typeName = "ZodAny"       -> Ret(EmptySchema, <<>>)
          [] typeName = "ZodUnknown"   -> Ret(EmptySchema, <<>>)
          [] typeName = "ZodNever"     -> Ret([type |-> "null"], <<>>)
          [] typeName = "ZodVoid"      -> Ret([type |-> "null"], <<>>)
          [] typeName = "ZodDate"      -> Ret([type |-> "string", format |-> "date-time"], <<>>)
          [] typeName = "ZodBranded"   -> processZodType(s.type)
          [] typeName = "ZodCatch"     -> processZodType(s.innerType)
          [] typeName = "ZodPipeline"  -> processZodType(s.out)
          [] typeName = "ZodReadonly"  -> processZodType(s.innerType)
          [] OTHER                     -> UnhandledType(typeName)

zodToJsonSchema(s) == processZodType(s)

\* jsonSchema.type !== 'object' (a missing type is undefined)
TypeIsObject(js) == "type" \in DOMAIN js /\ js.type = "object"

\* mutation: the compiled root is handed out as it is
createAnthropicOutputFormat_unwrapped(s) ==
    LET compiled == zodToJsonSchema(s)
    IN  Ret([type |-> "json_schema", schema |-> compiled.js], compiled.log)

createAnthropicOutputFormat(s) ==
    LET compiled == zodToJsonSchema(s)
    IN  IF ~TypeIsObject(compiled.js)
        THEN Ret([type |-> "json_schema",
                  schema |-> [type |-> "object",
                              properties |-> <<[key |-> "result", value |-> compiled.js]>>,
                              required |-> <<"result">>,
                              additionalProperties |-> FALSE]],
                 compiled.log)
        ELSE Ret([type |-> "json_schema", schema |-> compiled.js], compiled.log)

(***************************************************************************)
(* Input schemas.  TypeScript compiles `enum E { A = 0 }` to an object     *)
(* with a forward entry A -> 0 and a reverse entry "0" -> "A"; string      *)
(* members get a forward entry only.  JavaScript lists integer-like keys   *)
(* first (ascending), then the other keys in insertion order.              *)
(***************************************************************************)
Member(name, value) == [name |-> name, value |-> value]

\* members are listed with ascending, distinct numeric values
EnumObject(members) ==
    LET numeric == SelectSeq(members, LAMBDA m : typeof(m.value) = "number")
        reverse == [i \in 1..Len(numeric) |->
                      [key |-> <<"0", "1", "2">>[numeric[i].value.n + 1],
                       value |-> Str(numeric[i].name)]]
        forward == [i \in 1..Len(members) |->
                      [key |-> members[i].name, value |-> members[i].value]]
    IN  reverse \o forward

EnumDeclarations ==
    { <<Member("A", Str("a")), Member("B", Str("b"))>>,
      <<Member("A", Num(0))>>,
      <<Member("A", Num(0)), Member("B", Num(1))>>,
      <<Member("A", Num(1)), Member("B", Str("b"))>> }

StringNode == ZString(<<>>)
NumberNode == ZNode("ZodNumber")

\* leaves that occur below composite nodes
Kernel == {StringNode, NumberNode, ZNode("ZodMap")}

\* z.object({a: z.string(), b: z.number().optional(), c: z.boolean().nullable()})
PlainObject ==
    ZObject(<<Field("a", StringNode),
              Field("b", ZInner("ZodOptional", NumberNode)),
              Field("c", ZInner("ZodNullable", ZNode("ZodBoolean")))>>)

\* nodes that declare numeric and length checks, which the compiler never reads
Bound(kind, value) == [kind |-> kind, value |-> value]
BoundedArray ==
    [maxLength |-> Some([value |-> 5]), exactLength |-> Some([value |-> 3])]
        @@ ZArray(ZString(<<Check("min", ""), Check("max", ""), Check("length", "")>>),
                  Some([value |-> 2]))

\* the wrappers processZodType handles that are not ZodOptional or ZodDefault
OuterWrappers(c) ==
    { ZInner("ZodNullable", c), ZEffects(c), ZBranded(c), ZInner("ZodCatch", c),
      ZPipeline(StringNode, c), ZInner("ZodReadonly", c), ZLazy(c) }

\* objects with one field whose optional or default wrapper sits inside
\* another wrapper, e.g. z.object({a: z.number().optional().nullable()})
WrappedOptionalFields ==
    UNION { { ZObject(<<Field("a", w)>>), ZObject(<<Field("a", Describe(w, Some("d")))>>) } :
            w \in OuterWrappers(ZInner("ZodOptional", NumberNode))
                    \cup OuterWrappers(ZDefault(NumberNode, Str("dflt"))) }

\* leaves that occur as roots only
RootLeaves ==
    { ZNode(tn) : tn \in {"ZodBigInt", "ZodBoolean", "ZodNull", "ZodUndefined", "ZodAny",
                          "ZodUnknown", "ZodNever", "ZodVoid", "ZodDate", "ZodSet",
                          "ZodPromise"} }
    \cup { ZString(<<Check(k, "")>>) : k \in {"email", "url", "uuid", "datetime", "date",
                                                "time", "ip", "min", "max"} }
    \cup { ZString(<<Check("ip", "v6")>>), ZString(<<Check("ip", "v4"), Check("min", "")>>),
           ZString(<<Check("email", ""), Check("url", "")>>) }
    \cup { ZLiteral(Str("x")), ZLiteral(Num(1)), ZEnum(<<Str("x"), Str("y")>>) }
    \cup { ZNativeEnum(EnumObject(members)) : members \in EnumDeclarations }
    \cup { ZObject(<<>>), ZTuple(<<>>) }
    \cup { PlainObject, BoundedArray,
           [checks |-> <<Bound("min", 1), Bound("max", 9), Bound("multipleOf", 2),
                         Bound("int", 0)>>] @@ ZNode("ZodNumber"),
           [checks |-> <<Bound("min", 1), Bound("max", 9)>>] @@ ZNode("ZodBigInt") }
    \cup WrappedOptionalFields

SiblingFields == {StringNode, ZInner("ZodOptional", NumberNode)}

\* composite nodes built at every level
Composites(c) ==
    { ZInner("ZodOptional", c), ZInner("ZodNullable", c), ZDefault(c, Str("dflt")),
      ZLazy(c), ZRecord(c), ZArray(c, Absent), ZUnion(<<c, NumberNode>>),
      ZIntersection(c, NumberNode), ZTuple(<<c, NumberNode>>),
      ZObject(<<Field("a", c)>>) }
    \cup { ZObject(<<Field("a", Describe(c, Some("d"))), Field("b", s)>>) : s \in SiblingFields }

\* composite nodes built over the leaves only
LeafComposites(c) ==
    { ZInner("ZodCatch", c), ZInner("ZodReadonly", c), ZEffects(c), ZBranded(c),
      ZPipeline(StringNode, c), ZDiscriminatedUnion(<<NumberNode, c>>), ZTuple(<<c>>),
      ZObject(<<Field("a", Describe(c, Some("d")))>>) }
    \cup { ZArray(c, m) : m \in {Absent} \cup { Some([value |-> n]) : n \in 0..MaxMinLength } }
    \cup { ZObject(<<Field("a", s), Field("b", c)>>) : s \in SiblingFields }

RECURSIVE Trees(_)
Trees(depth) ==
    IF depth = 0 THEN Kernel
    ELSE LET below == Trees(depth - 1)
         IN  below \cup UNION { Composites(c) : c \in below }
                   \cup UNION { LeafComposites(c) : c \in Kernel }

Schemas(depth) == RootLeaves \cup Trees(depth)

(***************************************************************************)
(* Tool definitions and executeToolWithDefinition.                         *)
(* A hook slot (onStart / onComplete) holds "none" (undefined), "own" (a   *)
(* hook the tool factory supplied) or "render" (the closure over           *)
(* toolRenderer that buildDebugTools attaches).  A hook, the render        *)
(* callback and the implementation are foreign code: each call of one      *)
(* either returns / resolves or throws / rejects.                          *)
(***************************************************************************)
Obj(json) == [t |-> "object", s |-> json, n |-> 0]
HookError == "HookError"

Resolved(value) == [kind |-> "resolved", value |-> value]
Rejected(error) == [kind |-> "rejected", error |-> error]

\* the ten factories buildDebugTools calls, in call order
DebugToolFactories ==
    <<"createGetLogsTool", "createGetRuntimeErrorsTool", "createReadFilesTool",
      "createRunAnalysisTool", "createExecCommandsTool", "createRegenerateFileTool",
      "createGenerateFilesTool", "createDeployPreviewTool", "createWaitTool",
      "createGitTool">>

ToolDefinition(name, onStart, onComplete) ==
    [function |-> [name |-> name], implementation |-> name,
     onStart |-> onStart, onComplete |-> onComplete]

\* what the factories return: the hooks a factory sets are not fixed by
\* this module, so every combination is considered
Toolkits ==
    { [i \in 1..Len(DebugToolFactories) |->
          ToolDefinition(DebugToolFactories[i], onStart, onComplete)] :
      onStart \in {"none", "own"}, onComplete \in {"none", "own"} }


\* mutation: the wrapper also replaces the implementation
buildDebugTools_intercepting(kit, hasRenderer) ==
    IF hasRenderer
    THEN [i \in 1..Len(kit) |->
             [implementation |-> "render", onStart |-> "render", onComplete |-> "render"]
                 @@ kit[i]]
    ELSE kit

buildDebugTools(kit, hasRenderer) ==
    IF hasRenderer
    THEN [i \in 1..Len(kit) |-> [onStart |-> "render", onComplete |-> "render"] @@ kit[i]]
    ELSE kit

\* typeof result === 'string' ? result : JSON.stringify(result)
ResultString(result) ==
    LET JSONStringify(val) == IF typeof(val) = "string" THEN "\"" \o val.s \o "\"" ELSE val.s
    IN  IF typeof(result) = "string" THEN result.s ELSE JSONStringify(result)

\* mutation: the start event does not name the tool
StartEvent_unnamed(td, a) == [name |-> "", status |-> "start", args |-> a]

StartEvent(td, a) == [name |-> td.function.name, status |-> "start", args |-> a]
SuccessEvent(td, a, result) ==
    [name |-> td.function.name, status |-> "success", args |-> a,
     result |-> ResultString(result)]

Range(seq) == { seq[i] : i \in 1..Len(seq) }

CompilerStart ==
    /\ cpc = "ready"
    /\ jsonSchema = EmptySchema
    /\ console = <<>>
    /\ outputFormat = EmptySchema

ToolsStart ==
    /\ tools = <<>>
    /\ toolRenderer = FALSE
    /\ tpc = "idle"
    /\ toolDef = ToolDefinition("", "none", "none")
    /\ args = ""
    /\ trace = <<>>
    /\ rendered = <<>>
    /\ implOutcome = Absent
    /\ outcome = Absent
    /\ invocations = 0

LazyStart ==
    /\ graph = <<>>
    /\ stack = <<>>
    /\ lpc = "ready"

BuildStart ==
    /\ bpc = "idle"
    /\ mcpInit = "none"
    /\ servers = <<>>
    /\ mcpToolNames = <<>>
    /\ buildLog = <<>>
    /\ catalog = Absent

SessionStart ==
    /\ sstate = "Idle"
    /\ phase = "none"
    /\ iterationCount = 0
    /\ messages = <<>>
    /\ calls = <<>>
    /\ results = <<>>
    /\ cancelled = FALSE

DbStart ==
    /\ apps = <<>>
    /\ migrated = FALSE
    /\ statement = <<>>
    /\ dbResult = ""

DomainStart ==
    /\ dpc = "idle"
    /\ domain = <<>>
    /\ queries = <<>>
    /\ response = <<>>
    /\ availability = <<>>
    /\ serviceLog = <<>>

BuildDebugTools(kit, hasRenderer) ==
    /\ tpc = "idle"
    /\ tools = <<>>
    /\ tools' = buildDebugTools(kit, hasRenderer)
    /\ toolRenderer' = hasRenderer
    /\ UNCHANGED <<tpc, toolDef, args, trace, rendered, implOutcome, outcome, invocations>>
    /\ UNCHANGED <<compilerVars, lazyVars, buildVars, sessionVars, dbVars, domainVars>>

\* executeToolWithDefinition(toolDef, args) is called
ExecuteTool(td, a) ==
    /\ tpc \in {"idle", "done"}
    /\ invocations < MaxInvocations
    /\ invocations' = invocations + 1
    /\ toolDef' = td
    /\ args' = a
    /\ trace' = <<>>
    /\ rendered' = <<>>
    /\ implOutcome' = Absent
    /\ outcome' = Absent
    /\ tpc' = "onStart"
    /\ UNCHANGED <<tools, toolRenderer>>
    /\ UNCHANGED <<compilerVars, lazyVars, buildVars, sessionVars, dbVars, domainVars>>

\* toolDef.onStart?.(args) with onStart undefined
OnStartSkipped ==
    /\ tpc = "onStart"
    /\ toolDef.onStart = "none"
    /\ tpc' = "implementation"
    /\ UNCHANGED <<tools, toolRenderer, toolDef, args, trace, rendered, implOutcome,
                   outcome, invocations>>
    /\ UNCHANGED <<compilerVars, lazyVars, buildVars, sessionVars, dbVars, domainVars>>

DeliverStart ==
    rendered' = IF toolDef.onStart = "render"
                THEN Append(rendered, StartEvent(toolDef, args))
                ELSE rendered

\* toolDef.onStart?.(args) returns
OnStartReturns ==
    /\ tpc = "onStart"
    /\ toolDef.onStart # "none"
    /\ trace' = Append(trace, "onStart")
    /\ DeliverStart
    /\ tpc' = "implementation"
    /\ UNCHANGED <<tools, toolRenderer, toolDef, args, implOutcome, outcome, invocations>>
    /\ UNCHANGED <<compilerVars, lazyVars, buildVars, sessionVars, dbVars, domainVars>>

\* toolDef.onStart?.(args) throws: the async function rejects with the error
OnStartThrows ==
    /\ tpc = "onStart"
    /\ toolDef.onStart # "none"
    /\ trace' = trace \o <<"onStart", "onStartThrew">>
    /\ DeliverStart
    /\ outcome' = Some(Rejected(HookError))
    /\ tpc' = "done"
    /\ UNCHANGED <<tools, toolRenderer, toolDef, args, implOutcome, invocations>>
    /\ UNCHANGED <<compilerVars, lazyVars, buildVars, sessionVars, dbVars, domainVars>>

\* toolDef.implementation(args) is called and the call awaits its promise
CallImplementation ==
    /\ tpc = "implementation"
    /\ trace' = Append(trace, "implementation")
    /\ tpc' = "await"
    /\ UNCHANGED <<tools, toolRenderer, toolDef, args, rendered, implOutcome, outcome,
                   invocations>>
    /\ UNCHANGED <<compilerVars, lazyVars, buildVars, sessionVars, dbVars, domainVars>>

ImplementationResolves(result) ==
    /\ tpc = "await"
    /\ implOutcome' = Some(Resolved(result))
    /\ trace' = Append(trace, "resolved")
    /\ tpc' = "onComplete"
    /\ UNCHANGED <<tools, toolRenderer, toolDef, args, rendered, outcome, invocations>>
    /\ UNCHANGED <<compilerVars, lazyVars, buildVars, sessionVars, dbVars, domainVars>>

\* mutation: the rejection is caught and the call goes on with an undefined result
ImplementationRejects_continues(error) ==
    /\ tpc = "await"
    /\ implOutcome' = Some([kind |-> "rejected", error |-> error, value |-> Obj("undefined")])
    /\ trace' = Append(trace, "rejected")
    /\ tpc' = "onComplete"
    /\ UNCHANGED <<tools, toolRenderer, toolDef, args, rendered, outcome, invocations>>
    /\ UNCHANGED <<compilerVars, lazyVars, buildVars, sessionVars, dbVars, domainVars>>

\* mutation: the rejection is replaced by an error of the registry's own
ImplementationRejects_wrapped(error) ==
    /\ tpc = "await"
    /\ implOutcome' = Some(Rejected(error))
    /\ trace' = Append(trace, "rejected")
    /\ outcome' = Some(Rejected("ToolExecutionError"))
    /\ tpc' = "done"
    /\ UNCHANGED <<tools, toolRenderer, toolDef, args, rendered, invocations>>
    /\ UNCHANGED <<compilerVars, lazyVars, buildVars, sessionVars, dbVars, domainVars>>

\* the await rethrows: nothing after it runs
ImplementationRejects(error) ==
    /\ tpc = "await"
    /\ implOutcome' = Some(Rejected(error))
    /\ trace' = Append(trace, "rejected")
    /\ outcome' = Some(Rejected(error))
    /\ tpc' = "done"
    /\ UNCHANGED <<tools, toolRenderer, toolDef, args, rendered, invocations>>
    /\ UNCHANGED <<compilerVars, lazyVars, buildVars, sessionVars, dbVars, domainVars>>

OnCompleteSkipped ==
    /\ tpc = "onComplete"
    /\ toolDef.onComplete = "none"
    /\ tpc' = "return"
    /\ UNCHANGED <<tools, toolRenderer, toolDef, args, trace, rendered, implOutcome,
                   outcome, invocations>>
    /\ UNCHANGED <<compilerVars, lazyVars, buildVars, sessionVars, dbVars, domainVars>>

DeliverSuccess ==
    rendered' = IF toolDef.onComplete = "render"
                THEN Append(rendered, SuccessEvent(toolDef, args, implOutcome[1].value))
                ELSE rendered

OnCompleteReturns ==
    /\ tpc = "onComplete"
    /\ toolDef.onComplete # "none"
    /\ trace' = Append(trace, "onComplete")
    /\ DeliverSuccess
    /\ tpc' = "return"
    /\ UNCHANGED <<tools, toolRenderer, toolDef, args, implOutcome, outcome, invocations>>
    /\ UNCHANGED <<compilerVars, lazyVars, buildVars, sessionVars, dbVars, domainVars>>

OnCompleteThrows ==
    /\ tpc = "onComplete"
    /\ toolDef.onComplete # "none"
    /\ trace' = trace \o <<"onComplete", "onCompleteThrew">>
    /\ DeliverSuccess
    /\ outcome' = Some(Rejected(HookError))
    /\ tpc' = "done"
    /\ UNCHANGED <<tools, toolRenderer, toolDef, args, implOutcome, invocations>>
    /\ UNCHANGED <<compilerVars, lazyVars, buildVars, sessionVars, dbVars, domainVars>>

\* return result
ReturnResult ==
    /\ tpc = "return"
    /\ outcome' = Some(Resolved(implOutcome[1].value))
    /\ tpc' = "done"
    /\ UNCHANGED <<tools, toolRenderer, toolDef, args, trace, rendered, implOutcome,
                   invocations>>
    /\ UNCHANGED <<compilerVars, lazyVars, buildVars, sessionVars, dbVars, domainVars>>

ToolsInit ==
    /\ ToolsStart
    /\ schema = StringNode
    /\ CompilerStart
    /\ LazyStart
    /\ BuildStart
    /\ SessionStart
    /\ DbStart
    /\ DomainStart

ToolsNext ==
    \/ \E kit \in Toolkits, hasRenderer \in BOOLEAN : BuildDebugTools(kit, hasRenderer)
    \/ \E td \in Range(tools), a \in {"args1", "args2"} : ExecuteTool(td, a)
    \/ OnStartSkipped
    \/ OnStartReturns
    \/ OnStartThrows
    \/ CallImplementation
    \/ \E result \in {Str("done"), Obj("{}")} : ImplementationResolves(result)
    \/ \E error \in {"E1", "E2"} : ImplementationRejects(error)
    \/ OnCompleteSkipped
    \/ OnCompleteReturns
    \/ OnCompleteThrows
    \/ ReturnResult

SpecTools == ToolsInit /\ [][ToolsNext]_vars

(***************************************************************************)
(* Compiler calls                                                          *)
(***************************************************************************)
CompilerInit ==
    /\ schema \in Schemas(MaxDepth)
    /\ CompilerStart
    /\ ToolsStart
    /\ LazyStart
    /\ BuildStart
    /\ SessionStart
    /\ DbStart
    /\ DomainStart

CallZodToJsonSchema ==
    /\ cpc = "ready"
    /\ LET r == zodToJsonSchema(schema)
       IN  /\ jsonSchema' = r.js
           /\ console' = r.log
    /\ cpc' = "compiled"
    /\ UNCHANGED <<schema, outputFormat>>
    /\ UNCHANGED <<toolVars, lazyVars, buildVars, sessionVars, dbVars, domainVars>>

CallCreateAnthropicOutputFormat ==
    /\ cpc = "ready"
    /\ LET r == createAnthropicOutputFormat(schema)
       IN  /\ outputFormat' = r.js
           /\ jsonSchema' = zodToJsonSchema(schema).js
           /\ console' = r.log
    /\ cpc' = "formatted"
    /\ UNCHANGED schema
    /\ UNCHANGED <<toolVars, lazyVars, buildVars, sessionVars, dbVars, domainVars>>

CompilerNext == CallZodToJsonSchema \/ CallCreateAnthropicOutputFormat

SpecCompiler == CompilerInit /\ [][CompilerNext]_vars

(***************************************************************************)
(* Properties of executeToolWithDefinition (checked under SpecTools)       *)
(***************************************************************************)
Has(ev) == \E i \in 1..Len(trace) : trace[i] = ev
Pos(ev) == CHOOSE i \in 1..Len(trace) : trace[i] = ev
Before(ev1, ev2) == Has(ev1) /\ Has(ev2) /\ Pos(ev1) < Pos(ev2)
Done == tpc = "done"

\* C1: onStart (when present) is called before implementation, onComplete
\* (when present) is called only after implementation has resolved, and after
\* a rejection of implementation onComplete is never called.
C1_HookOrder ==
    /\ (Has("implementation") /\ toolDef.onStart # "none") => Before("onStart", "implementation")
    /\ Has("onComplete") => Before("resolved", "onComplete")
    /\ Has("resolved") => Before("implementation", "resolved")
    /\ Has("rejected") => ~Has("onComplete")
    /\ (Done /\ Has("resolved") /\ toolDef.onComplete # "none") => Has("onComplete")

C1_Witness ==
    /\ Done
    /\ trace = <<"onStart", "implementation", "resolved", "onComplete">>
    /\ outcome = Some(Resolved(Str("done")))

\* C2: when onStart throws, the implementation is still invoked and its
\* result is what the caller gets.
C2_OnStartFailureDoesNotBlock ==
    (Done /\ Has("onStartThrew") /\ ~Has("onCompleteThrew"))
        => (Has("implementation") /\ implOutcome # Absent /\ outcome = implOutcome)

\* C3: when implementation rejects with E, the call rejects with that same E.
C3_ErrorPropagates ==
    (Done /\ implOutcome # Absent /\ implOutcome[1].kind = "rejected")
        => outcome = Some(Rejected(implOutcome[1].error))

C3_Witness ==
    /\ Done
    /\ trace = <<"onStart", "implementation", "rejected">>
    /\ implOutcome = Some(Rejected("E2"))
    /\ outcome = Some(Rejected("E2"))

\* C4: when the render callback attached by buildDebugTools throws at the
\* start or the completion event, the invocation still runs the
\* implementation and returns the implementation's result.
C4_RenderFailureIsolated ==
    (/\ Done
     /\ toolRenderer
     /\ \/ toolDef.onStart = "render" /\ Has("onStartThrew")
        \/ toolDef.onComplete = "render" /\ Has("onCompleteThrew"))
        => (/\ Has("implementation")
            /\ implOutcome # Absent
            /\ outcome = implOutcome)

(***************************************************************************)
(* Properties of the schema compiler (checked under SpecCompiler)          *)
(***************************************************************************)
HandledTypeNames ==
    {"ZodString", "ZodNumber", "ZodBigInt", "ZodBoolean", "ZodNull", "ZodUndefined",
     "ZodLiteral", "ZodEnum", "ZodNativeEnum", "ZodArray", "ZodObject", "ZodUnion",
     "ZodDiscriminatedUnion", "ZodIntersection", "ZodTuple", "ZodRecord", "ZodOptional",
     "ZodNullable", "ZodDefault", "ZodEffects", "ZodLazy", "ZodAny", "ZodUnknown",
     "ZodNever", "ZodVoid", "ZodDate", "ZodBranded", "ZodCatch", "ZodPipeline",
     "ZodReadonly"}

Compiled == cpc = "compiled"
IsObjectNode(js) == "type" \in DOMAIN js /\ js.type = "object"
RequiredOf(js) == IF "required" \in DOMAIN js THEN js.required ELSE <<>>

\* every node of a compiled schema with type 'object' is closed
RECURSIVE ObjectsClosed(_)
ObjectsClosed(js) ==
    /\ IsObjectNode(js) =>
          ("additionalProperties" \in DOMAIN js /\ js.additionalProperties = FALSE)
    /\ "properties" \in DOMAIN js =>
          \A i \in 1..Len(js.properties) : ObjectsClosed(js.properties[i].value)
    /\ "items" \in DOMAIN js => ObjectsClosed(js.items)
    /\ "anyOf" \in DOMAIN js => \A i \in 1..Len(js.anyOf) : ObjectsClosed(js.anyOf[i])
    /\ "allOf" \in DOMAIN js => \A i \in 1..Len(js.allOf) : ObjectsClosed(js.allOf[i])

\* The source nodes the compiler descends to, each paired with the node of
\* the compiled schema that stands for it (a transparent wrapper and its
\* inner node stand at the same compiled node).
RECURSIVE Pairs(_, _)
RECURSIVE PairsOfList(_, _)
PairsOfList(nodes, compiled) ==
    IF nodes = <<>> THEN <<>>
    ELSE Pairs(Head(nodes), Head(compiled)) \o PairsOfList(Tail(nodes), Tail(compiled))

Pairs(node, js) ==
    LET tn == node.typeName
    IN  <<[src |-> node, out |-> js]>> \o
        ( CASE tn = "ZodObject" ->
                 PairsOfList([i \in 1..Len(node.shape) |-> node.shape[i].value],
                             [i \in 1..Len(node.shape) |-> js.properties[i].value])
            [] tn = "ZodArray" -> Pairs(node.type, js.items)
            [] tn \in {"ZodUnion", "ZodDiscriminatedUnion"} -> PairsOfList(node.options, js.anyOf)
            [] tn = "ZodIntersection" -> PairsOfList(<<node.left, node.right>>, js.allOf)
            [] tn = "ZodTuple" ->
                 IF Len(node.items) = 1 THEN Pairs(node.items[1], js.items)
                 ELSE PairsOfList(node.items, js.items.anyOf)
            [] tn = "ZodNullable" -> Pairs(node.innerType, js.anyOf[1])
            [] tn \in {"ZodOptional", "ZodDefault", "ZodCatch", "ZodReadonly"} ->
                 Pairs(node.innerType, js)
            [] tn = "ZodEffects" -> Pairs(node.schema, js)
            [] tn = "ZodLazy" -> Pairs(node.getter, js)
            [] tn = "ZodBranded" -> Pairs(node.type, js)
            [] tn = "ZodPipeline" -> Pairs(node.out, js)
            [] OTHER -> <<>> )

CompiledPairs == Pairs(schema, jsonSchema)

\* C5: every node of the compiled result whose type is 'object' has
\* additionalProperties false, the synthetic wrapper of
\* createAnthropicOutputFormat included.
C5_ObjectNodesClosed ==
    /\ Compiled => ObjectsClosed(jsonSchema)
    /\ cpc = "formatted" => ObjectsClosed(outputFormat.schema)

C5_Witness ==
    /\ cpc = "formatted"
    /\ schema.typeName = "ZodArray"
    /\ schema.type.typeName = "ZodRecord"
    /\ outputFormat.schema.type = "object"
    /\ outputFormat.schema.properties[1].value.items.type = "object"

\* C6: in every compiled object node, a key is in required exactly when its
\* source field node is neither a ZodOptional nor a ZodDefault.
C6_RequiredKeys ==
    Compiled =>
        \A p \in 1..Len(CompiledPairs) :
            LET src == CompiledPairs[p].src
                out == CompiledPairs[p].out
            IN  src.typeName = "ZodObject" =>
                  /\ \A k \in 1..Len(src.shape) :
                        (src.shape[k].key \in Range(RequiredOf(out)))
                            <=> (src.shape[k].value.typeName \notin {"ZodOptional", "ZodDefault"})
                  /\ Range(RequiredOf(out)) \subseteq { src.shape[k].key : k \in 1..Len(src.shape) }

C6_Witness ==
    /\ Compiled
    /\ schema.typeName = "ZodObject"
    /\ Len(schema.shape) = 2
    /\ schema.shape[1].value.typeName = "ZodDefault"
    /\ schema.shape[2].value.typeName = "ZodString"
    /\ jsonSchema.required = <<"b">>

NullType == [type |-> "null"]

\* C7 as stated: a nullable field's key is in the parent's required list and
\* the field compiles to exactly {anyOf: [compile(inner), {type: 'null'}]}.
C7_NullableFieldExact ==
    Compiled =>
        \A p \in 1..Len(CompiledPairs) :
            LET src == CompiledPairs[p].src
                out == CompiledPairs[p].out
            IN  src.typeName = "ZodObject" =>
                  \A k \in 1..Len(src.shape) :
                      src.shape[k].value.typeName = "ZodNullable" =>
                          /\ src.shape[k].key \in Range(RequiredOf(out))
                          /\ out.properties[k].value =
                                [anyOf |-> <<processZodType(src.shape[k].value.innerType).js,
                                             NullType>>]

\* C7 amended: as C7, but the compiled field also carries the description of
\* the nullable node when that node has a non-empty one.
C7_NullableField ==
    Compiled =>
        \A p \in 1..Len(CompiledPairs) :
            LET src == CompiledPairs[p].src
                out == CompiledPairs[p].out
            IN  src.typeName = "ZodObject" =>
                  \A k \in 1..Len(src.shape) :
                      LET field == src.shape[k].value
                          shape == [anyOf |-> <<processZodType(field.innerType).js, NullType>>]
                      IN  field.typeName = "ZodNullable" =>
                            /\ src.shape[k].key \in Range(RequiredOf(out))
                            /\ out.properties[k].value =
                                  IF Truthy(field.description)
                                  THEN [description |-> field.description[1]] @@ shape
                                  ELSE shape

C7_Witness ==
    /\ Compiled
    /\ schema.typeName = "ZodObject"
    /\ Len(schema.shape) = 2
    /\ schema.shape[1].value.typeName = "ZodNullable"
    /\ schema.shape[1].value.description = Some("d")
    /\ jsonSchema.required = <<"a", "b">>
    /\ jsonSchema.properties[1].value.description = "d"
    /\ jsonSchema.properties[1].value.anyOf[2] = NullType

\* C8: an array node's compiled shape has minItems exactly when the declared
\* minimum length is 0 or 1, and minItems then equals it.
C8_MinItems ==
    Compiled =>
        \A p \in 1..Len(CompiledPairs) :
            LET src == CompiledPairs[p].src
                out == CompiledPairs[p].out
            IN  src.typeName = "ZodArray" =>
                  IF src.minLength # Absent /\ src.minLength[1].value \in {0, 1}
                  THEN "minItems" \in DOMAIN out /\ out.minItems = src.minLength[1].value
                  ELSE "minItems" \notin DOMAIN out

C8_Witness ==
    /\ Compiled
    /\ schema.typeName = "ZodUnion"
    /\ schema.options[1].typeName = "ZodArray"
    /\ schema.options[1].minLength = Some([value |-> 2])
    /\ "minItems" \notin DOMAIN jsonSchema.anyOf[1]

\* C9: the enum list of a native enum holds the member values only: the
\* member names held by the reverse-lookup entries do not appear in it.
C9_NativeEnumValuesOnly ==
    (Compiled /\ schema.typeName = "ZodNativeEnum") =>
        jsonSchema.enum =
            ObjectValues(SelectSeq(schema.values, LAMBDA e : e.key \notin {"0", "1", "2"}))

ResultWrapper(js) ==
    [type |-> "object",
     properties |-> <<[key |-> "result", value |-> js]>>,
     required |-> <<"result">>,
     additionalProperties |-> FALSE]

\* C11: createAnthropicOutputFormat hands out the compiled root unchanged
\* when its type is 'object', and otherwise the compiled root nested as the
\* single required property result of a closed object.
C11_ObjectRoot ==
    cpc = "formatted" =>
        /\ outputFormat.type = "json_schema"
        /\ IsObjectNode(outputFormat.schema)
        /\ outputFormat.schema =
              IF IsObjectNode(jsonSchema) THEN jsonSchema ELSE ResultWrapper(jsonSchema)

C11_Witness ==
    /\ cpc = "formatted"
    /\ schema = StringNode
    /\ outputFormat.schema = ResultWrapper([type |-> "string"])

\* C12: {a: string, b: optional number, c: nullable boolean} compiles to
\* exactly the closed object with properties a, b, c in declaration order and
\* required [a, c].
C12_PlainObjectRoundTrip ==
    (Compiled /\ schema = PlainObject) =>
        jsonSchema =
            [type |-> "object",
             properties |->
                <<[key |-> "a", value |-> [type |-> "string"]],
                  [key |-> "b", value |-> [type |-> "number"]],
                  [key |-> "c", value |-> [anyOf |-> <<[type |-> "boolean"], NullType>>]]>>,
             required |-> <<"a", "c">>,
             additionalProperties |-> FALSE]

C12_Witness ==
    /\ Compiled
    /\ schema = PlainObject
    /\ jsonSchema.required = <<"a", "c">>
    /\ Len(jsonSchema.properties) = 3

ConstraintKeys ==
    {"minLength", "maxLength", "minimum", "maximum", "exclusiveMinimum", "exclusiveMaximum",
     "multipleOf", "maxItems"}

\* no node of a compiled schema has a numeric or length constraint, minItems
\* of 0 or 1 excepted
RECURSIVE Unconstrained(_)
Unconstrained(js) ==
    /\ DOMAIN js \cap ConstraintKeys = {}
    /\ "minItems" \in DOMAIN js => js.minItems \in {0, 1}
    /\ "properties" \in DOMAIN js =>
          \A i \in 1..Len(js.properties) : Unconstrained(js.properties[i].value)
    /\ "items" \in DOMAIN js => Unconstrained(js.items)
    /\ "anyOf" \in DOMAIN js => \A i \in 1..Len(js.anyOf) : Unconstrained(js.anyOf[i])
    /\ "allOf" \in DOMAIN js => \A i \in 1..Len(js.allOf) : Unconstrained(js.allOf[i])

\* C13: whatever checks the source nodes declare, the compiled output has no
\* minLength, maxLength, minimum, maximum, multipleOf or maxItems field, and
\* minItems only with the value 0 or 1.
C13_NoConstraints ==
    /\ Compiled => Unconstrained(jsonSchema)
    /\ cpc = "formatted" => Unconstrained(outputFormat.schema)

C13_Witness ==
    /\ Compiled
    /\ schema = BoundedArray
    /\ jsonSchema = [type |-> "array", items |-> [type |-> "string"]]

(***************************************************************************)
(* Self-referential schemas.  A z.lazy getter can return a schema that is  *)
(* still being built, so the schema is a table of entries that refer to    *)
(* each other by position; position 0 is a plain z.string().  Entries other *)
(* than ZodLazy are built from finished schemas and so refer only to later *)
(* positions.  The compiler's recursion is followed frame by frame.        *)
(***************************************************************************)
MaxNodes == 3        \* entries of the schema table

StackLimit == MaxNodes + 1   \* frames the engine allows; every acyclic path fits

SchemaAt(g, ref) == IF ref = 0 THEN StringNode ELSE g[ref]

EntriesAt(i, n) ==
    {ZLazy(ref) : ref \in 0..n}
        \cup UNION {{ZInner("ZodOptional", ref), ZUnion(<<ref, 0>>),
                     ZObject(<<Field("a", ref)>>), ZRecord(ref)} :
                    ref \in {0} \cup (i + 1)..n}

RECURSIVE TablesFrom(_, _)
TablesFrom(i, n) ==
    IF i > n THEN {<<>>}
    ELSE {<<entry>> \o rest : entry \in EntriesAt(i, n), rest \in TablesFrom(i + 1, n)}


\* the schemas processZodType passes to its recursive calls, in call order
CompiledRefs(node) ==
    CASE node.typeName = "ZodLazy" -> <<node.getter>>
      [] node.typeName = "ZodOptional" -> <<node.innerType>>
      [] node.typeName = "ZodUnion" -> node.options
      [] node.typeName = "ZodObject" ->
            [i \in 1..Len(node.shape) |-> node.shape[i].value]
      [] OTHER -> <<>>

Frame(ref, next) == [ref |-> ref, next |-> next]

Top == stack[Len(stack)]

TopRefs == CompiledRefs(SchemaAt(graph, Top.ref))

CallCompile ==
    /\ lpc = "ready"
    /\ stack' = <<Frame(1, 1)>>
    /\ lpc' = "running"
    /\ UNCHANGED <<graph, compilerVars, toolVars, buildVars, sessionVars, dbVars, domainVars>>

\* a variant that skips a schema already on the compilation path
Descend_visited ==
    /\ lpc = "running"
    /\ Top.next <= Len(TopRefs)
    /\ Len(stack) < StackLimit
    /\ IF \E k \in 1..Len(stack) : stack[k].ref = TopRefs[Top.next]
       THEN stack' = [stack EXCEPT ![Len(stack)].next = @ + 1]
       ELSE stack' = Append(stack, Frame(TopRefs[Top.next], 1))
    /\ UNCHANGED <<graph, lpc, compilerVars, toolVars, buildVars, sessionVars, dbVars, domainVars>>

Descend ==
    /\ lpc = "running"
    /\ Top.next <= Len(TopRefs)
    /\ Len(stack) < StackLimit
    /\ stack' = Append(stack, Frame(TopRefs[Top.next], 1))
    /\ UNCHANGED <<graph, lpc, compilerVars, toolVars, buildVars, sessionVars, dbVars, domainVars>>

StackOverflow ==
    /\ lpc = "running"
    /\ Top.next <= Len(TopRefs)
    /\ Len(stack) = StackLimit
    /\ stack' = <<>>
    /\ lpc' = "overflow"
    /\ UNCHANGED <<graph, compilerVars, toolVars, buildVars, sessionVars, dbVars, domainVars>>

Return ==
    /\ lpc = "running"
    /\ Top.next > Len(TopRefs)
    /\ IF Len(stack) = 1
       THEN /\ stack' = <<>>
            /\ lpc' = "returned"
       ELSE /\ stack' = [SubSeq(stack, 1, Len(stack) - 1)
                            EXCEPT ![Len(stack) - 1].next = @ + 1]
            /\ lpc' = lpc
    /\ UNCHANGED <<graph, compilerVars, toolVars, buildVars, sessionVars, dbVars, domainVars>>

LazyInit ==
    /\ graph \in TablesFrom(1, MaxNodes)
    /\ stack = <<>>
    /\ lpc = "ready"
    /\ schema = StringNode
    /\ CompilerStart
    /\ ToolsStart
    /\ BuildStart
    /\ SessionStart
    /\ DbStart
    /\ DomainStart

LazyNext == CallCompile \/ Descend \/ StackOverflow \/ Return

\* the compiler is one synchronous call: once entered it runs until it
\* returns or the engine throws
SpecLazy == LazyInit /\ [][LazyNext]_vars /\ WF_vars(LazyNext)

(***************************************************************************)
(* Which schema tables refer back to themselves                            *)
(***************************************************************************)
Targets(g, ref, among) == Range(CompiledRefs(SchemaAt(g, ref))) \cap among

RECURSIVE Closure(_, _, _, _)
Closure(g, refs, among, k) ==
    IF k = 0 THEN refs
    ELSE Closure(g, refs \cup UNION {Targets(g, r, among) : r \in refs}, among, k - 1)

\* the schemas compiled below ref when only schemas in `among` are entered
Descendants(g, ref, among) == Closure(g, Targets(g, ref, among), among, Len(g))

AllRefs(g) == 0..Len(g)

Arms(g) == {r \in 1..Len(g) : g[r].typeName \in {"ZodOptional", "ZodUnion"}}

Visited(g) == {1} \cup Descendants(g, 1, AllRefs(g))

\* some schema the compiler reaches is compiled again below itself
SelfReferential(g) == \E r \in Visited(g) : r \in Descendants(g, r, AllRefs(g))

\* a self-reference that does not pass through an optional or union arm
Unterminated(g) ==
    \E r \in Visited(g) \ Arms(g) : r \in Descendants(g, r, AllRefs(g) \ Arms(g))

\* C14 as stated: compile terminates on every schema without unterminated
\* self-reference, a lazy self-reference through an optional or union arm
\* included, so on such a schema the recursion never exhausts the stack.
C14_TerminatesThroughArm == ~Unterminated(graph) => lpc # "overflow"

\* C14 amended: compile always ends; it returns a schema exactly when no
\* schema it reaches is compiled again below itself, and exhausts the call
\* stack on every self-reference, one through an optional or union arm too.
C14_ReturnsIffNotSelfReferential ==
    /\ [](lpc = "returned" => ~SelfReferential(graph))
    /\ [](lpc = "overflow" => SelfReferential(graph))
    /\ <>(lpc \in {"returned", "overflow"})

C14_Witness ==
    /\ lpc = "overflow"
    /\ graph[1] = ZObject(<<Field("a", 2)>>)
    /\ graph[2] = ZInner("ZodOptional", 3)
    /\ graph[3] = ZLazy(1)
    /\ ~Unterminated(graph)

(***************************************************************************)
(* Wrapping the debug tools with a renderer                                *)
(***************************************************************************)
Count(ev) == Cardinality({i \in 1..Len(trace) : trace[i] = ev})

\* how often the hook the factory had set ran in the current invocation
OriginalRuns(slot) == IF toolDef[slot] = "own" THEN Count(slot) ELSE 0

SameButHooks(wrapped, plain) ==
    /\ DOMAIN wrapped = DOMAIN plain
    /\ \A field \in DOMAIN plain \ {"onStart", "onComplete"} : wrapped[field] = plain[field]

\* C15: with a renderer buildDebugTools returns the tools of the call without
\* one, in the same order, each with the same name, argument schema and
\* implementation and differing only in onStart/onComplete; invoking a
\* wrapped tool runs an original onStart or onComplete at most once.
C15_WrappingKeepsTools ==
    /\ [][\A kit \in Toolkits :
            BuildDebugTools(kit, TRUE) =>
                LET plain == buildDebugTools(kit, FALSE)
                IN  /\ Len(tools') = Len(plain)
                    /\ \A i \in 1..Len(plain) :
                          /\ SameButHooks(tools'[i], plain[i])
                          /\ tools'[i].function.name = DebugToolFactories[i]
                          /\ tools'[i].onStart = "render"
                          /\ tools'[i].onComplete = "render"]_vars
    /\ []((toolRenderer /\ tpc # "idle") =>
            /\ toolDef \in Range(tools)
            /\ OriginalRuns("onStart") <= 1
            /\ OriginalRuns("onComplete") <= 1
            /\ Count("onStart") <= 1
            /\ Count("onComplete") <= 1)

C15_Witness ==
    /\ toolRenderer
    /\ tpc = "done"
    /\ toolDef = tools[10]
    /\ toolDef.function.name = "createGitTool"
    /\ toolDef.implementation = "createGitTool"
    /\ Count("onStart") = 1
    /\ Count("onComplete") = 1

(***************************************************************************)
(* Events the render callback receives                                     *)
(***************************************************************************)
Wrapped == toolRenderer /\ tpc # "idle"

\* C16 as stated: every invocation of a wrapped tool delivers exactly one
\* start event and exactly one completion event, each with the tool's name
\* and arguments.
C16_OneStartOneCompletion ==
    (Wrapped /\ Done) =>
        /\ Len(rendered) = 2
        /\ rendered[1].status = "start"
        /\ rendered[1].name = toolDef.function.name
        /\ rendered[1].args = args
        /\ rendered[2].status # "start"
        /\ rendered[2].name = toolDef.function.name
        /\ rendered[2].args = args

\* C16 amended: every invocation of a wrapped tool delivers exactly one start
\* event, before the implementation runs, and a completion event (status
\* 'success', with the result as a string) exactly when the implementation
\* resolved, delivered once and after it resolved; no completion event is
\* delivered when the implementation rejects or never runs.  Each event
\* carries the tool's name and the arguments.
C16_RenderEvents ==
    Wrapped =>
        /\ Len(rendered) <= 2
        /\ Has("implementation") => Len(rendered) >= 1
        /\ Len(rendered) >= 1 =>
              rendered[1] = [name |-> toolDef.function.name, status |-> "start",
                             args |-> args]
        /\ Len(rendered) = 2 =>
              /\ Has("resolved")
              /\ rendered[2].name = toolDef.function.name
              /\ rendered[2].status = "success"
              /\ rendered[2].args = args
              /\ rendered[2].result \in {"done", "{}"}
        /\ Done => /\ Len(rendered) >= 1
                   /\ Len(rendered) = 2 <=> Has("resolved")

C16_Witness ==
    /\ Wrapped
    /\ Done
    /\ Has("rejected")
    /\ rendered = <<[name |-> "createGitTool", status |-> "start", args |-> "args1"]>>

(***************************************************************************)
(* buildTools: remote discovery, then the catalog of local tools           *)
(***************************************************************************)
MaxServers == 2      \* configured remote servers

\* the eleven entries of the returned array, in order
LocalTools ==
    <<"toolWebSearchDefinition", "toolFeedbackDefinition", "createQueueRequestTool",
      "createGetLogsTool", "createDeployPreviewTool", "createWaitForGenerationTool",
      "createWaitForDebugTool", "createRenameProjectTool", "createAlterBlueprintTool",
      "createGitTool", "createDeepDebuggerTool">>


Connecting == [status |-> "connecting", tools |-> <<>>]
Connected(i, listing) ==
    [status |-> "connected",
     tools |-> [k \in 1..Len(listing) |-> [server |-> i, name |-> listing[k]]]]
Failed == [status |-> "failed", tools |-> <<>>]

Settled(srv) == \A i \in 1..Len(srv) : srv[i].status # "connecting"

RECURSIVE Merged(_, _)
Merged(srv, i) ==
    IF i > Len(srv) THEN <<>> ELSE srv[i].tools \o Merged(srv, i + 1)

\* mcpManager.getAvailableToolNames(): the tools of the servers that answered
getAvailableToolNames(srv) == Merged(srv, 1)

Log(logger, level, message) == [logger |-> logger, level |-> level, message |-> message]

\* mutation: initialize() is started but not awaited
CallBuildTools_detached ==
    /\ bpc = "idle"
    /\ buildLog' = <<Log("buildToolsLogger", "info", "===="),
                     Log("buildToolsLogger", "info", "Building tools and initializing MCP manager..."),
                     Log("buildToolsLogger", "info", "===="),
                     Log("logger", "info", "Building tools and initializing MCP manager...")>>
    /\ mcpInit' = "pending"
    /\ servers' = [i \in 1..MaxServers |-> Connecting]
    /\ catalog' = Some(Resolved(LocalTools))
    /\ bpc' = "done"
    /\ UNCHANGED mcpToolNames
    /\ UNCHANGED <<compilerVars, toolVars, lazyVars, sessionVars, dbVars, domainVars>>

\* buildTools runs up to the await of mcpManager.initialize()
CallBuildTools ==
    /\ bpc = "idle"
    /\ buildLog' = <<Log("buildToolsLogger", "info", "===="),
                     Log("buildToolsLogger", "info", "Building tools and initializing MCP manager..."),
                     Log("buildToolsLogger", "info", "===="),
                     Log("logger", "info", "Building tools and initializing MCP manager...")>>
    /\ mcpInit' = "pending"
    /\ servers' = [i \in 1..MaxServers |-> Connecting]
    /\ bpc' = "awaitInit"
    /\ UNCHANGED <<mcpToolNames, catalog>>
    /\ UNCHANGED <<compilerVars, toolVars, lazyVars, sessionVars, dbVars, domainVars>>

\* discovery inside mcpManager.initialize(): each server answers or fails on
\* its own
ServerConnects(i, listing) ==
    /\ mcpInit = "pending"
    /\ servers[i].status = "connecting"
    /\ servers' = [servers EXCEPT ![i] = Connected(i, listing)]
    /\ UNCHANGED <<bpc, mcpInit, mcpToolNames, buildLog, catalog>>
    /\ UNCHANGED <<compilerVars, toolVars, lazyVars, sessionVars, dbVars, domainVars>>

ServerFails(i) ==
    /\ mcpInit = "pending"
    /\ servers[i].status = "connecting"
    /\ servers' = [servers EXCEPT ![i] = Failed]
    /\ UNCHANGED <<bpc, mcpInit, mcpToolNames, buildLog, catalog>>
    /\ UNCHANGED <<compilerVars, toolVars, lazyVars, sessionVars, dbVars, domainVars>>

\* the promise of mcpManager.initialize() resolves once every server settled
InitializeResolves ==
    /\ mcpInit = "pending"
    /\ Settled(servers)
    /\ mcpInit' = "resolved"
    /\ UNCHANGED <<bpc, servers, mcpToolNames, buildLog, catalog>>
    /\ UNCHANGED <<compilerVars, toolVars, lazyVars, sessionVars, dbVars, domainVars>>

\* the promise of mcpManager.initialize() rejects
InitializeRejects ==
    /\ mcpInit = "pending"
    /\ mcpInit' = "rejected"
    /\ UNCHANGED <<bpc, servers, mcpToolNames, buildLog, catalog>>
    /\ UNCHANGED <<compilerVars, toolVars, lazyVars, sessionVars, dbVars, domainVars>>

\* mutation: the discovered tools are merged into the returned array
ResumeAfterInitialize_merging ==
    /\ bpc = "awaitInit"
    /\ mcpInit = "resolved"
    /\ LET availableTools == getAvailableToolNames(servers)
       IN  /\ mcpToolNames' = availableTools
           /\ buildLog' =
                buildLog
                  \o <<Log("buildToolsLogger", "info", "MCP manager initialization completed"),
                       Log("logger", "info", "MCP manager initialization completed")>>
                  \o (IF Len(availableTools) > 0
                      THEN <<Log("buildToolsLogger", "info", "[MCP] Available MCP tools"),
                             Log("logger", "info", "[MCP] Available MCP tools")>>
                      ELSE <<>>)
    /\ catalog' = Some(Resolved(LocalTools
                                   \o [k \in 1..Len(getAvailableToolNames(servers)) |->
                                          getAvailableToolNames(servers)[k].name]))
    /\ bpc' = "done"
    /\ UNCHANGED <<mcpInit, servers>>
    /\ UNCHANGED <<compilerVars, toolVars, lazyVars, sessionVars, dbVars, domainVars>>

\* the await returns: the rest of the try block, then the return statement
ResumeAfterInitialize ==
    /\ bpc = "awaitInit"
    /\ mcpInit = "resolved"
    /\ LET availableTools == getAvailableToolNames(servers)
       IN  /\ mcpToolNames' = availableTools
           /\ buildLog' =
                buildLog
                  \o <<Log("buildToolsLogger", "info", "MCP manager initialization completed"),
                       Log("logger", "info", "MCP manager initialization completed")>>
                  \o (IF Len(availableTools) > 0
                      THEN <<Log("buildToolsLogger", "info", "[MCP] Available MCP tools"),
                             Log("logger", "info", "[MCP] Available MCP tools")>>
                      ELSE <<>>)
    /\ catalog' = Some(Resolved(LocalTools))
    /\ bpc' = "done"
    /\ UNCHANGED <<mcpInit, servers>>
    /\ UNCHANGED <<compilerVars, toolVars, lazyVars, sessionVars, dbVars, domainVars>>

\* mutation: the rejection is logged and passed on to the caller
CatchInitializeError_rethrows ==
    /\ bpc = "awaitInit"
    /\ mcpInit = "rejected"
    /\ buildLog' =
         buildLog
           \o <<Log("buildToolsLogger", "warn", "MCP manager initialization failed (non-critical)"),
                Log("logger", "warn", "MCP manager initialization failed (non-critical)")>>
    /\ catalog' = Some(Rejected("McpError"))
    /\ bpc' = "done"
    /\ UNCHANGED <<mcpInit, servers, mcpToolNames>>
    /\ UNCHANGED <<compilerVars, toolVars, lazyVars, sessionVars, dbVars, domainVars>>

\* the await throws: the catch block, then the return statement
CatchInitializeError ==
    /\ bpc = "awaitInit"
    /\ mcpInit = "rejected"
    /\ buildLog' =
         buildLog
           \o <<Log("buildToolsLogger", "warn", "MCP manager initialization failed (non-critical)"),
                Log("logger", "warn", "MCP manager initialization failed (non-critical)")>>
    /\ catalog' = Some(Resolved(LocalTools))
    /\ bpc' = "done"
    /\ UNCHANGED <<mcpInit, servers, mcpToolNames>>
    /\ UNCHANGED <<compilerVars, toolVars, lazyVars, sessionVars, dbVars, domainVars>>

BuildInit ==
    /\ BuildStart
    /\ schema = StringNode
    /\ CompilerStart
    /\ ToolsStart
    /\ LazyStart
    /\ SessionStart
    /\ DbStart
    /\ DomainStart

BuildNext ==
    \/ CallBuildTools
    \/ \E i \in 1..MaxServers,
          listing \in {<<>>, <<"read">>, <<"read", "write">>, <<"createGitTool">>} :
          ServerConnects(i, listing)
    \/ \E i \in 1..MaxServers : ServerFails(i)
    \/ InitializeResolves
    \/ InitializeRejects
    \/ ResumeAfterInitialize
    \/ CatchInitializeError

SpecBuild == BuildInit /\ [][BuildNext]_vars

\* C17: a rejection of mcpManager.initialize(), like the failure of a single
\* remote server, never makes buildTools reject: the call goes on to return
\* the catalog, and the rejection shows only as two warnings in the logs.
C17_DiscoveryFailureIsolated ==
    /\ catalog # Absent => catalog = Some(Resolved(LocalTools))
    /\ bpc = "done" => catalog # Absent
    /\ (bpc = "awaitInit" /\ mcpInit = "rejected") => ENABLED CatchInitializeError
    /\ (bpc = "done" /\ mcpInit = "rejected") =>
          /\ Len(buildLog) = 6
          /\ buildLog[5].level = "warn"
          /\ buildLog[6].level = "warn"
          /\ \A k \in 1..Len(buildLog) : buildLog[k].level \in {"info", "warn"}

C17_Witness ==
    /\ bpc = "done"
    /\ mcpInit = "rejected"
    /\ servers[1] = Failed
    /\ catalog = Some(Resolved(LocalTools))

\* C18: buildTools does not resolve with the catalog until the promise of
\* mcpManager.initialize() has settled, resolved or rejected.
C18_DiscoverySettledFirst ==
    catalog # Absent =>
        /\ mcpInit \in {"resolved", "rejected"}
        /\ mcpInit = "resolved" => Settled(servers)

C18_Witness ==
    /\ catalog # Absent
    /\ mcpInit = "resolved"
    /\ servers[1].status = "failed"
    /\ mcpToolNames = <<[server |-> 2, name |-> "read"]>>

(***************************************************************************)
(* Bounded autonomous session: Idle -> Running -> {Completed, Aborted,     *)
(* BudgetExceeded}.  A round is one inference call followed by the tool    *)
(* calls it returned; the calls of a round run concurrently and their      *)
(* results go back into the conversation together.                         *)
(***************************************************************************)
MaxRounds == 2       \* configured maximum of rounds

ToolTurn(id, content) == [role |-> "tool", tool_call_id |-> id, content |-> content]

Completion(index, content) == [index |-> index, content |-> content]

Completed(index) == \E k \in 1..Len(results) : results[k].index = index

ResultOf(index) ==
    (CHOOSE k \in 1..Len(results) : results[k].index = index)

\* mutation: one turn per call in the order the calls completed
Reassembled_asCompleted ==
    [k \in 1..Len(results) |-> ToolTurn(calls[results[k].index], results[k].content)]

\* the results of the round, one turn per call, in the order of the requests
Reassembled ==
    [i \in 1..Len(calls) |-> ToolTurn(calls[i], results[ResultOf(i)].content)]

StartSession ==
    /\ sstate = "Idle"
    /\ sstate' = "Running"
    /\ phase' = "between"
    /\ messages' = <<[role |-> "user"]>>
    /\ UNCHANGED <<iterationCount, calls, results, cancelled>>
    /\ UNCHANGED <<compilerVars, toolVars, lazyVars, buildVars, dbVars, domainVars>>

\* mutation: the budget is compared after the round has been started
BeginRound_late ==
    /\ sstate = "Running"
    /\ phase = "between"
    /\ ~cancelled
    /\ iterationCount <= MaxRounds
    /\ iterationCount' = iterationCount + 1
    /\ phase' = "inference"
    /\ UNCHANGED <<sstate, messages, calls, results, cancelled>>
    /\ UNCHANGED <<compilerVars, toolVars, lazyVars, buildVars, dbVars, domainVars>>

\* the round counter is advanced and is within the budget: the inference
\* call of the round is issued
BeginRound ==
    /\ sstate = "Running"
    /\ phase = "between"
    /\ ~cancelled
    /\ iterationCount + 1 <= MaxRounds
    /\ iterationCount' = iterationCount + 1
    /\ phase' = "inference"
    /\ UNCHANGED <<sstate, messages, calls, results, cancelled>>
    /\ UNCHANGED <<compilerVars, toolVars, lazyVars, buildVars, dbVars, domainVars>>

\* the round counter is advanced and exceeds the budget
ExceedBudget ==
    /\ sstate = "Running"
    /\ phase = "between"
    /\ ~cancelled
    /\ iterationCount + 1 > MaxRounds
    /\ iterationCount' = iterationCount + 1
    /\ sstate' = "BudgetExceeded"
    /\ phase' = "none"
    /\ UNCHANGED <<messages, calls, results, cancelled>>
    /\ UNCHANGED <<compilerVars, toolVars, lazyVars, buildVars, dbVars, domainVars>>

\* a cancellation signal is observed between rounds
ObserveCancellation ==
    /\ sstate = "Running"
    /\ phase = "between"
    /\ cancelled
    /\ sstate' = "Aborted"
    /\ phase' = "none"
    /\ UNCHANGED <<iterationCount, messages, calls, results, cancelled>>
    /\ UNCHANGED <<compilerVars, toolVars, lazyVars, buildVars, dbVars, domainVars>>

\* the inference call returns a final object
ProviderReturnsObject ==
    /\ phase = "inference"
    /\ messages' = Append(messages, [role |-> "assistant", object |-> TRUE,
                                     toolCalls |-> <<>>])
    /\ sstate' = "Completed"
    /\ phase' = "none"
    /\ UNCHANGED <<iterationCount, calls, results, cancelled>>
    /\ UNCHANGED <<compilerVars, toolVars, lazyVars, buildVars, dbVars, domainVars>>

\* the inference call returns tool calls: all of them are dispatched
ProviderRequestsTools(req) ==
    /\ phase = "inference"
    /\ messages' = Append(messages, [role |-> "assistant", object |-> FALSE,
                                     toolCalls |-> req])
    /\ calls' = req
    /\ results' = <<>>
    /\ phase' = "tools"
    /\ UNCHANGED <<sstate, iterationCount, cancelled>>
    /\ UNCHANGED <<compilerVars, toolVars, lazyVars, buildVars, dbVars, domainVars>>

\* one of the dispatched calls completes, in any order
ToolCompletes(index, content) ==
    /\ phase = "tools"
    /\ index \in 1..Len(calls)
    /\ ~Completed(index)
    /\ results' = Append(results, Completion(index, content))
    /\ UNCHANGED <<sstate, phase, iterationCount, messages, calls, cancelled>>
    /\ UNCHANGED <<compilerVars, toolVars, lazyVars, buildVars, dbVars, domainVars>>

\* every call of the round has completed: the results are appended
AppendResults ==
    /\ phase = "tools"
    /\ Len(results) = Len(calls)
    /\ messages' = messages \o Reassembled
    /\ phase' = "between"
    /\ UNCHANGED <<sstate, iterationCount, calls, results, cancelled>>
    /\ UNCHANGED <<compilerVars, toolVars, lazyVars, buildVars, dbVars, domainVars>>

\* the caller cancels the session
Cancel ==
    /\ sstate = "Running"
    /\ ~cancelled
    /\ cancelled' = TRUE
    /\ UNCHANGED <<sstate, phase, iterationCount, messages, calls, results>>
    /\ UNCHANGED <<compilerVars, toolVars, lazyVars, buildVars, dbVars, domainVars>>

SessionInit ==
    /\ SessionStart
    /\ schema = StringNode
    /\ CompilerStart
    /\ ToolsStart
    /\ LazyStart
    /\ BuildStart
    /\ DbStart
    /\ DomainStart

LoopStep ==
    \/ StartSession
    \/ BeginRound
    \/ ExceedBudget
    \/ ObserveCancellation
    \/ ProviderReturnsObject
    \/ \E req \in {<<"X", "Y", "Z">>, <<"Y">>} : ProviderRequestsTools(req)
    \/ \E index \in 1..Len(calls), content \in {"ok", "tool-error"} : ToolCompletes(index, content)
    \/ AppendResults

SessionNext == LoopStep \/ Cancel

\* the loop, the provider and the tools all make progress; the caller need
\* not cancel
SpecSession == SessionInit /\ [][SessionNext]_vars /\ WF_vars(LoopStep)

(***************************************************************************)
(* Budget and ordering of the session loop                                 *)
(***************************************************************************)
AssistantTurns == {p \in 1..Len(messages) : messages[p].role = "assistant"}

\* inference calls issued so far: one per round
RoundsRun == Cardinality(AssistantTurns) + (IF phase = "inference" THEN 1 ELSE 0)

\* C19: a session never runs more rounds than the configured maximum; when
\* the round counter exceeds the maximum the session is in BudgetExceeded, a
\* terminal state that is neither Completed nor Aborted, and a session whose
\* provider never returns a final object and that is not cancelled gets there.
C19_BudgetExceeded ==
    /\ [](RoundsRun <= MaxRounds)
    /\ [](iterationCount > MaxRounds <=> sstate = "BudgetExceeded")
    /\ [](sstate = "BudgetExceeded" =>
            /\ phase = "none"
            /\ RoundsRun = MaxRounds
            /\ \A p \in AssistantTurns : ~messages[p].object)
    /\ [][sstate = "BudgetExceeded" => UNCHANGED sessionVars]_vars
    /\ [](sstate # "Completed" /\ ~cancelled) => <>(sstate = "BudgetExceeded")

C19_Witness ==
    /\ sstate = "BudgetExceeded"
    /\ iterationCount = MaxRounds + 1
    /\ ~cancelled
    /\ messages[Len(messages)].role = "tool"

\* C20: the tool-result turns that follow a round's tool-call turn are one
\* per requested call and in the order of the requests, with each call's own
\* result, whatever the order in which the calls completed.
C20_RequestOrder ==
    /\ \A p \in AssistantTurns :
          LET req == messages[p].toolCalls
          IN  /\ p = Len(messages) => phase \in {"tools", "none"}
              /\ p < Len(messages) =>
                    /\ Len(messages) >= p + Len(req)
                    /\ \A k \in 1..Len(req) :
                          /\ messages[p + k].role = "tool"
                          /\ messages[p + k].tool_call_id = req[k]
                    /\ Len(messages) > p + Len(req) =>
                          messages[p + Len(req) + 1].role = "assistant"
    /\ (phase = "between" /\ calls # <<>>) =>
          \A k \in 1..Len(results) :
              messages[Len(messages) - Len(calls) + results[k].index].content
                  = results[k].content

C20_Witness ==
    /\ phase = "between"
    /\ calls = <<"X", "Y", "Z">>
    /\ results = <<Completion(3, "ok"), Completion(1, "tool-error"), Completion(2, "ok")>>
    /\ SubSeq(messages, Len(messages) - 2, Len(messages))
          = <<ToolTurn("X", "tool-error"), ToolTurn("Y", "ok"), ToolTurn("Z", "ok")>>

(***************************************************************************)
(* Tuples                                                                  *)
(***************************************************************************)
CompiledElements(node) == [i \in 1..Len(node.items) |-> zodToJsonSchema(node.items[i]).js]

\* C21: every tuple node compiles to type 'array' with items the single
\* compiled element for arity 1 and {anyOf: [compiled elements in order]} for
\* every other arity, the empty tuple included; the tuple rule writes nothing
\* else (an enclosing object adds a description, an enclosing default wrapper
\* its default).
C21_TupleItems ==
    Compiled =>
        \A i \in 1..Len(CompiledPairs) :
            LET node == CompiledPairs[i].src
                out == CompiledPairs[i].out
            IN  node.typeName = "ZodTuple" =>
                    /\ DOMAIN out \ {"description", "default"} = {"type", "items"}
                    /\ out.type = "array"
                    /\ out.items = IF Len(node.items) = 1
                                   THEN CompiledElements(node)[1]
                                   ELSE [anyOf |-> CompiledElements(node)]
                    /\ Len(node.items) = 0 => out.items = [anyOf |-> <<>>]

C21_Witness ==
    /\ Compiled
    /\ schema = ZTuple(<<ZTuple(<<StringNode>>), NumberNode>>)
    /\ jsonSchema = [type |-> "array",
                     items |-> [anyOf |-> <<[type |-> "array", items |-> [type |-> "string"]],
                                            [type |-> "number"]>>]]

(***************************************************************************)
(* Migration 0006: apps.custom_subdomain and its unique index.  A row is   *)
(* its id with the value of custom_subdomain: Absent for NULL, Some(text)  *)
(* otherwise.  A statement that breaks a constraint is aborted and leaves  *)
(* the table as it was.                                                    *)
(***************************************************************************)
MaxApps == 3         \* rows the apps table can hold

\* the values a statement may give custom_subdomain: NULL or a text
ColumnValues == {Absent, Some("shop"), Some("Shop")}

\* the table the statement would leave behind
Applied(table, st) ==
    IF st.op = "insert"
    THEN [id \in DOMAIN table \cup st.ids |-> IF id \in st.ids THEN st.value ELSE table[id]]
    ELSE [id \in DOMAIN table |-> IF id \in st.ids THEN st.value ELSE table[id]]

\* mutation: a plain index, without UNIQUE
apps_custom_subdomain_idx_plain(table) == \A r1 \in DOMAIN table : table[r1] = table[r1]

\* CREATE UNIQUE INDEX apps_custom_subdomain_idx ON apps(custom_subdomain):
\* no two rows with equal values, NULLs counting as different from each other
apps_custom_subdomain_idx(table) ==
    \A r1, r2 \in DOMAIN table :
        (r1 # r2 /\ table[r1] # Absent /\ table[r2] # Absent) => table[r1] # table[r2]

\* ALTER TABLE apps ADD COLUMN custom_subdomain TEXT, then the index: the
\* rows that exist get NULL in the new column
ApplyMigration ==
    /\ ~migrated
    /\ apps' = [id \in DOMAIN apps |-> Absent]
    /\ migrated' = TRUE
    /\ statement' = [op |-> "migration", ids |-> {}, value |-> Absent]
    /\ dbResult' = "ok"
    /\ UNCHANGED <<compilerVars, toolVars, lazyVars, buildVars, sessionVars, domainVars>>

Execute(st) ==
    /\ migrated
    /\ statement' = st
    /\ IF apps_custom_subdomain_idx(Applied(apps, st))
       THEN /\ apps' = Applied(apps, st)
            /\ dbResult' = "ok"
       ELSE /\ apps' = apps
            /\ dbResult' = "UNIQUE constraint failed: apps.custom_subdomain"
    /\ UNCHANGED migrated
    /\ UNCHANGED <<compilerVars, toolVars, lazyVars, buildVars, sessionVars, domainVars>>

\* INSERT INTO apps (id, custom_subdomain) VALUES (id, value), id being new
Insert(id, value) ==
    /\ id \notin DOMAIN apps
    /\ Execute([op |-> "insert", ids |-> {id}, value |-> value])

\* UPDATE apps SET custom_subdomain = value WHERE id IN ids
Update(ids, value) ==
    /\ ids # {}
    /\ Execute([op |-> "update", ids |-> ids, value |-> value])

DbInit ==
    /\ apps \in UNION {[ids -> {Absent}] : ids \in SUBSET (1..(MaxApps - 1))}
    /\ migrated = FALSE
    /\ statement = <<>>
    /\ dbResult = ""
    /\ schema = StringNode
    /\ CompilerStart
    /\ ToolsStart
    /\ LazyStart
    /\ BuildStart
    /\ SessionStart
    /\ DomainStart

DbNext ==
    \/ ApplyMigration
    \/ \E id \in 1..MaxApps, value \in ColumnValues : Insert(id, value)
    \/ \E ids \in SUBSET DOMAIN apps, value \in ColumnValues : Update(ids, value)

SpecDb == DbInit /\ [][DbNext]_vars

Duplicated(table) ==
    \E r1, r2 \in DOMAIN table :
        r1 # r2 /\ table[r1] = table[r2] /\ Len(table[r1]) = 1

\* C22: once the index exists no two rows hold the same non-NULL
\* custom_subdomain; an insert or update that would create such a pair is
\* rejected and leaves the table unchanged, every other one is carried out,
\* so any number of rows may hold NULL.
C22_UniqueSubdomains ==
    /\ [](migrated => ~Duplicated(apps))
    /\ [][(migrated /\ statement' # statement) =>
            IF Duplicated(Applied(apps, statement'))
            THEN apps' = apps /\ dbResult' # "ok"
            ELSE apps' = Applied(apps, statement') /\ dbResult' = "ok"]_vars

C22_Witness ==
    /\ migrated
    /\ dbResult # "ok"
    /\ statement = [op |-> "insert", ids |-> {3}, value |-> Some("shop")]
    /\ apps = (1 :> Absent) @@ (2 :> Some("shop"))

(***************************************************************************)
(* Fields whose optional or default wrapper is not the outermost one       *)
(***************************************************************************)
OuterWrapperNames ==
    {"ZodNullable", "ZodEffects", "ZodBranded", "ZodCatch", "ZodPipeline", "ZodReadonly",
     "ZodLazy"}

InnerOptional(node) ==
    /\ node.typeName \in OuterWrapperNames
    /\ WrappedType(node).typeName \in {"ZodOptional", "ZodDefault"}

Without(js, key) == [k \in DOMAIN js \ {key} |-> js[k]]

C24_LocalCatalogOnly ==
    catalog # Absent =>
        /\ catalog[1].kind = "resolved"
        /\ Len(catalog[1].value) = 11
        /\ catalog[1].value =
             <<"toolWebSearchDefinition", "toolFeedbackDefinition", "createQueueRequestTool",
               "createGetLogsTool", "createDeployPreviewTool", "createWaitForGenerationTool",
               "createWaitForDebugTool", "createRenameProjectTool",
               "createAlterBlueprintTool", "createGitTool", "createDeepDebuggerTool">>
        /\ {k \in 1..Len(catalog[1].value) : catalog[1].value[k] = "createGitTool"} = {10}
        /\ mcpInit = "rejected" => mcpToolNames = <<>>

C24_Witness ==
    /\ catalog = Some(Resolved(LocalTools))
    /\ mcpInit = "resolved"
    /\ mcpToolNames = <<[server |-> 1, name |-> "createGitTool"],
                        [server |-> 2, name |-> "read"]>>

(***************************************************************************)
(* DomainService.  A string is the sequence of its characters.             *)
(***************************************************************************)
\* domain.toLowerCase().trim(), then replace(/^https?:\/\//, ''), then
\* replace(/^www\./, ''), then split('/')[0]
normalizeDomain(str) ==
    LET LowerCase ==
            <<"a", "b", "c", "d", "e", "f", "g", "h", "i", "j", "k", "l", "m", "n", "o", "p",
              "q", "r", "s", "t", "u", "v", "w", "x", "y", "z">>
        UpperCase ==
            <<"A", "B", "C", "D", "E", "F", "G", "H", "I", "J", "K", "L", "M", "N", "O", "P",
              "Q", "R", "S", "T", "U", "V", "W", "X", "Y", "Z">>
        WhiteSpace == {" ", "\t", "\n"}
        toLowerCase(x) ==
            [i \in 1..Len(x) |->
                IF \E k \in 1..26 : UpperCase[k] = x[i]
                THEN LowerCase[CHOOSE k \in 1..26 : UpperCase[k] = x[i]]
                ELSE x[i]]
        trim(x) ==
            LET kept == {i \in 1..Len(x) : x[i] \notin WhiteSpace}
            IN  IF kept = {} THEN <<>>
                ELSE SubSeq(x, CHOOSE i \in kept : \A j \in kept : i <= j,
                               CHOOSE i \in kept : \A j \in kept : i >= j)
        StartsWith(x, prefix) == Len(x) >= Len(prefix) /\ SubSeq(x, 1, Len(prefix)) = prefix
        DropPrefix(x, prefix) == SubSeq(x, Len(prefix) + 1, Len(x))
        RemoveProtocol(x) ==
            IF StartsWith(x, <<"h", "t", "t", "p", ":", "/", "/">>)
            THEN DropPrefix(x, <<"h", "t", "t", "p", ":", "/", "/">>)
            ELSE IF StartsWith(x, <<"h", "t", "t", "p", "s", ":", "/", "/">>)
            THEN DropPrefix(x, <<"h", "t", "t", "p", "s", ":", "/", "/">>)
            ELSE x
        RemoveWww(x) ==
            IF StartsWith(x, <<"w", "w", "w", ".">>) THEN DropPrefix(x, <<"w", "w", "w", ".">>)
            ELSE x
        FirstPart(x) ==
            LET at == {i \in 1..Len(x) : x[i] = "/"}
            IN  IF at = {} THEN x
                ELSE SubSeq(x, 1, (CHOOSE i \in at : \A j \in at : i <= j) - 1)
    IN  FirstPart(RemoveWww(RemoveProtocol(trim(toLowerCase(str)))))

\* /^[a-z0-9]([a-z0-9-]{0,61}[a-z0-9])?(\.[a-z]{2,})+$/.test(str)
isValidDomain(str) ==
    LET Letters == {"a", "b", "c", "d", "e", "f", "g", "h", "i", "j", "k", "l", "m", "n", "o",
                    "p", "q", "r", "s", "t", "u", "v", "w", "x", "y", "z"}
        Digits == {"0", "1", "2", "3", "4", "5", "6", "7", "8", "9"}
        \* the characters of x before its first dot
        Label(x) ==
            LET at == {i \in 1..Len(x) : x[i] = "."}
            IN  IF at = {} THEN x
                ELSE SubSeq(x, 1, (CHOOSE i \in at : \A j \in at : i <= j) - 1)
        \* (\.[a-z]{2,})+ matched against the whole of x
        RECURSIVE DotLabels(_)
        DotLabels(x) ==
            /\ Len(x) >= 3
            /\ x[1] = "."
            /\ LET rest == SubSeq(x, 2, Len(x))
                   label == Label(rest)
               IN  /\ Len(label) >= 2
                   /\ \A i \in 1..Len(label) : label[i] \in Letters
                   /\ \/ Len(label) = Len(rest)
                      \/ DotLabels(SubSeq(rest, Len(label) + 1, Len(rest)))
        first == Label(str)
        n == Len(first)
    IN  /\ n >= 1
        /\ n <= 63
        /\ first[1] \in Letters \cup Digits
        /\ first[n] \in Letters \cup Digits
        /\ \A i \in 1..n : first[i] \in Letters \cup Digits \cup {"-"}
        /\ DotLabels(SubSeq(str, n + 1, Len(str)))

\* the arguments checkAvailability is called with; the last one is a value
\* that is not a string, passed where the signature says string
DomainInputs ==
    LET DotIo == <<".", "i", "o">>
        AbIo == <<"a", "b">> \o DotIo
        Chars(n, c) == [i \in 1..n |-> c]
        DomainStrings ==
            { AbIo,
              <<" ", "H", "T", "T", "P", ":", "/", "/", "W", "W", "W", ".", "A", "b">> \o DotIo
                  \o <<"/", "x", " ">>,
              <<"h", "t", "t", "p", "s", ":", "/", "/">> \o AbIo \o <<"/">>,
              <<"w", "w", "w", ".">> \o AbIo,
              <<"w", "w", "w", ".", "h", "t", "t", "p", ":", "/", "/">> \o AbIo,
              <<"a", "-", "1">> \o <<".", "c", "o", ".", "u", "k">>,
              Chars(63, "a") \o DotIo,
              Chars(64, "a") \o DotIo,
              <<"a", "b">>,
              <<"a", "_", "b">> \o DotIo,
              <<"-", "a", "b">> \o DotIo,
              <<"a", "b", "-">> \o DotIo,
              <<"a", " ", "b">> \o DotIo,
              <<"a", "b", ".", "i">>,
              <<"a", "b", ".", "i", "0">>,
              AbIo \o <<".">>,
              <<"a", "b", ".">> \o DotIo,
              <<"/">> \o AbIo,
              <<>> }
    IN  {Str(chars) : chars \in DomainStrings} \cup {[t |-> "undefined", s |-> <<>>, n |-> 0]}

\* the JSON bodies the DNS-over-HTTPS endpoint may answer with: null, or an
\* object with a Status and possibly Answer records
DnsBodies ==
    {[t |-> "null"]}
        \cup {[Status |-> st, Answer |-> an] :
                 st \in {0, 2, 3},
                 an \in {Absent, Some(<<>>), Some(<<"NS">>), Some(<<"NS", "NS">>)}}

\* mutation: an answered query counts as available
DnsVerdict_answered(data) ==
    IF data = [t |-> "null"] THEN [threw |-> TRUE, available |-> FALSE]
    ELSE IF data.Status = 3 THEN [threw |-> FALSE, available |-> TRUE]
    ELSE IF data.Answer # Absent /\ Len(data.Answer[1]) > 0
         THEN [threw |-> FALSE, available |-> TRUE]
    ELSE [threw |-> FALSE, available |-> TRUE]

\* checkDNS after response.json(): reading Status of null throws, which the
\* catch turns into false
DnsVerdict(data) ==
    IF data = [t |-> "null"] THEN [threw |-> TRUE, available |-> FALSE]
    ELSE IF data.Status = 3 THEN [threw |-> FALSE, available |-> TRUE]
    ELSE IF data.Answer # Absent /\ Len(data.Answer[1]) > 0
         THEN [threw |-> FALSE, available |-> FALSE]
    ELSE [threw |-> FALSE, available |-> TRUE]

\* checkDNS returns isAvailable: checkAvailability logs and returns
ReturnAvailability(isAvailable, warned) ==
    /\ serviceLog' = serviceLog
                       \o (IF warned THEN <<"warn: DNS check failed, assuming unavailable">>
                           ELSE <<>>)
                       \o <<"info: Domain availability check">>
    /\ availability' = Some(Resolved([domain |-> queries[Len(queries)], available |-> isAvailable]))
    /\ dpc' = "done"

\* checkAvailability(domain) runs up to its first await: normalization,
\* validation and the fetch call of checkDNS
CheckAvailability(input) ==
    /\ dpc = "idle"
    /\ domain' = input
    /\ response' = <<>>
    /\ IF typeof(input) # "string"
       THEN \* input.toLowerCase is not a function: the outer catch
            /\ serviceLog' = Append(serviceLog, "error: Error checking domain availability")
            /\ availability' =
                 Some(Resolved([domain |-> input, available |-> FALSE,
                                error |-> "Failed to check availability"]))
            /\ dpc' = "done"
            /\ UNCHANGED queries
       ELSE LET normalizedDomain == normalizeDomain(input.s)
            IN  IF ~isValidDomain(normalizedDomain)
                THEN /\ availability' =
                          Some(Resolved([domain |-> normalizedDomain, available |-> FALSE,
                                         error |-> "Invalid domain format"]))
                     /\ dpc' = "done"
                     /\ UNCHANGED <<queries, serviceLog>>
                ELSE /\ queries' = Append(queries, normalizedDomain)
                     /\ dpc' = "fetch"
                     /\ UNCHANGED <<availability, serviceLog>>
    /\ UNCHANGED <<compilerVars, toolVars, lazyVars, buildVars, sessionVars, dbVars>>

\* fetch rejects (network error): the catch of checkDNS returns false
FetchRejects ==
    /\ dpc = "fetch"
    /\ response' = [threw |-> TRUE]
    /\ ReturnAvailability(FALSE, TRUE)
    /\ UNCHANGED <<domain, queries>>
    /\ UNCHANGED <<compilerVars, toolVars, lazyVars, buildVars, sessionVars, dbVars>>

\* fetch resolves with a response; a response that is not ok means false
FetchResolves(ok) ==
    /\ dpc = "fetch"
    /\ response' = [threw |-> FALSE, ok |-> ok]
    /\ IF ok
       THEN /\ dpc' = "json"
            /\ UNCHANGED <<availability, serviceLog>>
       ELSE ReturnAvailability(FALSE, FALSE)
    /\ UNCHANGED <<domain, queries>>
    /\ UNCHANGED <<compilerVars, toolVars, lazyVars, buildVars, sessionVars, dbVars>>

\* response.json() rejects: the body is not JSON
JsonRejects ==
    /\ dpc = "json"
    /\ response' = [threw |-> TRUE, ok |-> TRUE]
    /\ ReturnAvailability(FALSE, TRUE)
    /\ UNCHANGED <<domain, queries>>
    /\ UNCHANGED <<compilerVars, toolVars, lazyVars, buildVars, sessionVars, dbVars>>

\* response.json() resolves with the parsed body
JsonResolves(data) ==
    /\ dpc = "json"
    /\ response' = [threw |-> FALSE, ok |-> TRUE, data |-> data]
    /\ ReturnAvailability(DnsVerdict(data).available, DnsVerdict(data).threw)
    /\ UNCHANGED <<domain, queries>>
    /\ UNCHANGED <<compilerVars, toolVars, lazyVars, buildVars, sessionVars, dbVars>>

DomainInit ==
    /\ DomainStart
    /\ schema = StringNode
    /\ CompilerStart
    /\ ToolsStart
    /\ LazyStart
    /\ BuildStart
    /\ SessionStart
    /\ DbStart

DomainNext ==
    \/ \E input \in DomainInputs : CheckAvailability(input)
    \/ FetchRejects
    \/ \E ok \in BOOLEAN : FetchResolves(ok)
    \/ JsonRejects
    \/ \E data \in DnsBodies : JsonResolves(data)

SpecDomain == DomainInit /\ [][DomainNext]_vars

(***************************************************************************)
(* What checkAvailability resolves to                                      *)
(***************************************************************************)
CheckResult == availability[1].value

NoAnswerRecords(data) == data.Answer = <<>> \/ Len(data.Answer[1]) = 0

PassesFormat == typeof(domain) = "string" /\ isValidDomain(normalizeDomain(domain.s))

\* C25: checkAvailability always resolves; available is true only for a
\* normalized domain that passes the format check and whose DNS query got an
\* OK response with Status 3 or without Answer records; an invalid format
\* gives available false with error 'Invalid domain format' and no query; a
\* response that is not OK or a network error gives available false.
C25_CheckAvailability ==
    /\ dpc = "done" <=> availability # <<>>
    /\ Range(queries) \subseteq {<<"a", "b", ".", "i", "o">>,
                                 <<"a", "-", "1", ".", "c", "o", ".", "u", "k">>,
                                 [i \in 1..66 |-> IF i <= 63 THEN "a"
                                                  ELSE <<".", "i", "o">>[i - 63]]}
    /\ availability # <<>> =>
          /\ availability[1].kind = "resolved"
          /\ CheckResult.available \in BOOLEAN
          /\ CheckResult.available =>
                /\ PassesFormat
                /\ CheckResult.domain = normalizeDomain(domain.s)
                /\ queries = <<CheckResult.domain>>
                /\ ~response.threw
                /\ response.ok
                /\ response.data # [t |-> "null"]
                /\ response.data.Status = 3 \/ NoAnswerRecords(response.data)
          /\ (typeof(domain) = "string" /\ ~PassesFormat) =>
                /\ CheckResult = [domain |-> normalizeDomain(domain.s), available |-> FALSE,
                                  error |-> "Invalid domain format"]
                /\ queries = <<>>
          /\ (queries # <<>> /\ (response.threw \/ ~response.ok)) => ~CheckResult.available

C25_Witness ==
    /\ dpc = "done"
    /\ domain = Str(<<" ", "H", "T", "T", "P", ":", "/", "/", "W", "W", "W", ".", "A", "b",
                      ".", "i", "o", "/", "x", " ">>)
    /\ availability = Some(Resolved([domain |-> <<"a", "b", ".", "i", "o">>,
                                     available |-> TRUE]))
    /\ response.data = [Status |-> 3, Answer |-> Some(<<"NS">>)]
====
